---- MODULE Spec2Model ----
(***************************************************************************)
(* The chunked slot allocator of ChunkyQueue.rs: a growable pool of        *)
(* fixed-size chunks (CHUNKS), each with a FIFO queue of free slot         *)
(* positions, and a bit set of the chunks that have a free slot            *)
(* (FREE_CHUNKS).  Both live behind mutexes that allocate_value and        *)
(* deallocate_value take for their whole body.                             *)
(***************************************************************************)
EXTENDS Integers, Sequences, FiniteSets, TLC

\* const CHUNK_SIZE: usize = 64
CHUNK_SIZE == 64
\* The chunk size the exhaustive specifications run the allocator at.
ScaledChunkSize == 3
\* The chunk positions callers pass to deallocate_value: 0 .. MaxChunks, which
\* reaches past every pool the explored calls can build.
MaxChunks == 2
\* Number of allocate_value/deallocate_value calls explored.
MaxCalls == 6
\* Number of calls explored when the callers are concurrent threads.
MaxThreadCalls == 6
\* The number of calls the threads make in all under fair scheduling.
MaxFairCalls == 4
\* Number of calls explored on the array of Python2RustTypes.
MaxArrayCalls == 6
\* The i32 payloads the callers pass.
Values == {1, 2}
\* The threads that call allocate_value and deallocate_value.
Threads == {1, 2}

VARIABLES
    chunks,       \* CHUNKS: the Vec<Chunk>; chunk position i is chunks[i + 1]
    free_chunks,  \* FREE_CHUNKS: the BitSet, as the set of its members
    panicked,     \* a call panicked while holding the locks (both are poisoned)
    live,         \* history: handles returned by allocate_value and not passed to deallocate_value since
    misused,      \* history: some deallocate_value got an in-range handle that was not live
    rets,         \* history: handles returned since the last deallocate_value call, in order
    freed,        \* history: per chunk, the positions freed and not handed out since, oldest first
    stale,        \* history: <<handle, value>> for every value a deallocate_value call cleared
    last,         \* history: the most recent call, its arguments and its result
    calls,        \* history: number of calls made so far
    pc,           \* per thread: the function it is in and the statement it is at
    chunks_lock,        \* the thread holding the CHUNKS mutex, 0 for none
    free_chunks_lock,   \* the thread holding the FREE_CHUNKS mutex, 0 for none
    array,        \* Python2RustTypes ARRAY: the Vec of <<value, used>>; index i is array[i + 1]
    array_last,   \* history: the most recent call on ARRAY, its argument, result and the array before it
    array_calls   \* history: number of calls made on ARRAY so far

statics == <<chunks, free_chunks, panicked>>
history == <<live, misused, rets, freed, stale, last, calls>>
control == <<pc, chunks_lock, free_chunks_lock>>
scan == <<array, array_last, array_calls>>
vars == <<statics, history, control, scan>>

\* Option<T>
None == <<>>
Some(x) == <<x>>

\* The positions of a chunk's slots: the indices of [Option<Value>; CHUNK_SIZE].
Slots(size) == 0 .. (size - 1)

\* Chunk::new
ChunkNew(size) ==
    [values |-> [i \in Slots(size) |-> None],
     free_indices |-> [i \in 1 .. size |-> i - 1]]

\* Mutant: front() for pop_front(): the position stays queued.
ChunkAllocate_NoPop(chunk, value) ==
    IF chunk.free_indices = <<>>
    THEN [chunk |-> chunk, ret |-> None]
    ELSE LET index == Head(chunk.free_indices)
         IN  [chunk |-> [chunk EXCEPT !.values[index] = Some(value)],
              ret |-> Some(index)]

\* Mutant: pop_back() for pop_front(): the latest freed position first.
ChunkAllocate_Lifo(chunk, value) ==
    IF chunk.free_indices = <<>>
    THEN [chunk |-> chunk, ret |-> None]
    ELSE LET n == Len(chunk.free_indices)
             index == chunk.free_indices[n]
         IN  [chunk |-> [values |-> [chunk.values EXCEPT ![index] = Some(value)],
                         free_indices |-> SubSeq(chunk.free_indices, 1, n - 1)],
              ret |-> Some(index)]

\* Mutant: the position is taken but the value is not stored.
ChunkAllocate_NoStore(chunk, value) ==
    IF chunk.free_indices = <<>>
    THEN [chunk |-> chunk, ret |-> None]
    ELSE [chunk |-> [chunk EXCEPT !.free_indices = Tail(chunk.free_indices)],
          ret |-> Some(Head(chunk.free_indices))]

\* Chunk::allocate: pop_front, store the value there, return the position.
ChunkAllocate(chunk, value) ==
    IF chunk.free_indices = <<>>
    THEN [chunk |-> chunk, ret |-> None]
    ELSE LET index == Head(chunk.free_indices)
         IN  [chunk |-> [values |-> [chunk.values EXCEPT ![index] = Some(value)],
                         free_indices |-> Tail(chunk.free_indices)],
              ret |-> Some(index)]

\* Mutant: the position is queued but the slot keeps its value.
ChunkDeallocate_NoClear(size, chunk, index) ==
    IF index < size
    THEN [chunk EXCEPT !.free_indices = Append(chunk.free_indices, index)]
    ELSE chunk

\* Mutant: index <= CHUNK_SIZE for index < CHUNK_SIZE.
ChunkDeallocate_OffByOne(size, chunk, index) ==
    IF index <= size
    THEN [values |-> [i \in DOMAIN chunk.values |->
                         IF i = index THEN None ELSE chunk.values[i]],
          free_indices |-> Append(chunk.free_indices, index)]
    ELSE chunk

\* Mutant: only an occupied slot is released.
ChunkDeallocate_IfOccupied(size, chunk, index) ==
    IF index < size /\ chunk.values[index] # None
    THEN [values |-> [chunk.values EXCEPT ![index] = None],
          free_indices |-> Append(chunk.free_indices, index)]
    ELSE chunk

\* Chunk::deallocate: clear the slot and push_back its position, when in range.
ChunkDeallocate(size, chunk, index) ==
    IF index < size
    THEN [values |-> [chunk.values EXCEPT ![index] = None],
          free_indices |-> Append(chunk.free_indices, index)]
    ELSE chunk

\* Mutant: a chunk with one free slot left counts as full.
has_free_slot_OffByOne(chunk) == Len(chunk.free_indices) > 1

\* Chunk::has_free_slot
has_free_slot(chunk) == chunk.free_indices # <<>>

\* Mutant: the largest member instead of the smallest.
BitSetLast(s) ==
    IF s = {} THEN None ELSE Some(CHOOSE i \in s : \A j \in s : i >= j)

\* BitSet::iter().next(): the smallest member, None for the empty set.
BitSetFirst(s) ==
    IF s = {} THEN None ELSE Some(CHOOSE i \in s : \A j \in s : i <= j)

\* Mutant: a chunk that became full is not removed from the index.
AllocateBody_KeepsFull(size, pool, free, value) ==
    LET first == BitSetFirst(free)
        grow == first = None
        pool1 == IF grow THEN Append(pool, ChunkNew(size)) ELSE pool
        chunk_index == IF grow THEN Len(pool1) - 1 ELSE first[1]
        free1 == IF grow THEN free \cup {chunk_index} ELSE free
        r == ChunkAllocate(pool1[chunk_index + 1], value)
    IN  IF r.ret = None
        THEN [pool |-> pool1, free |-> free1, panic |-> TRUE, ret |-> None]
        ELSE [pool |-> [pool1 EXCEPT ![chunk_index + 1] = r.chunk],
              free |-> free1,
              panic |-> FALSE,
              ret |-> Some(<<chunk_index, r.ret[1]>>)]

\* The body of allocate_value, run with both locks held.  panic: the index
\* chunks[chunk_index] is out of bounds, or the unwrap of Chunk::allocate's
\* result meets None.
AllocateBody(size, pool, free, value) ==
    LET first == BitSetFirst(free)
        grow == first = None
        pool1 == IF grow THEN Append(pool, ChunkNew(size)) ELSE pool
        chunk_index == IF grow THEN Len(pool1) - 1 ELSE first[1]
        free1 == IF grow THEN free \cup {chunk_index} ELSE free
    IN  IF chunk_index >= Len(pool1)
        THEN [pool |-> pool1, free |-> free1, panic |-> TRUE, ret |-> None]
        ELSE LET r == ChunkAllocate(pool1[chunk_index + 1], value)
             IN  IF r.ret = None
                 THEN [pool |-> pool1, free |-> free1, panic |-> TRUE, ret |-> None]
                 ELSE [pool |-> [pool1 EXCEPT ![chunk_index + 1] = r.chunk],
                       free |-> IF ~has_free_slot(r.chunk)
                                THEN free1 \ {chunk_index} ELSE free1,
                       panic |-> FALSE,
                       ret |-> Some(<<chunk_index, r.ret[1]>>)]

\* Mutant: the chunk is not put back into the index.
DeallocateBody_NoInsert(size, pool, free, chunk_index, value_index) ==
    IF chunk_index < Len(pool)
    THEN [pool |-> [pool EXCEPT ![chunk_index + 1] =
                       ChunkDeallocate(size, pool[chunk_index + 1], value_index)],
          free |-> free]
    ELSE [pool |-> pool, free |-> free]

\* Mutant: a chunk position past the end wraps around instead of being ignored.
DeallocateBody_Wraps(size, pool, free, chunk_index, value_index) ==
    IF pool # <<>>
    THEN LET c == chunk_index % Len(pool)
             chunk == ChunkDeallocate(size, pool[c + 1], value_index)
         IN  [pool |-> [pool EXCEPT ![c + 1] = chunk],
              free |-> IF has_free_slot(chunk) THEN free \cup {c} ELSE free]
    ELSE [pool |-> pool, free |-> free]

\* Mutant: a last chunk left with no occupied slot is popped off the pool.
DeallocateBody_Shrinks(size, pool, free, chunk_index, value_index) ==
    IF chunk_index < Len(pool)
    THEN LET chunk == ChunkDeallocate(size, pool[chunk_index + 1], value_index)
             pool1 == [pool EXCEPT ![chunk_index + 1] = chunk]
             free1 == IF has_free_slot(chunk) THEN free \cup {chunk_index} ELSE free
             tail == pool1[Len(pool1)]
         IN  IF \A i \in DOMAIN tail.values : tail.values[i] = None
             THEN [pool |-> SubSeq(pool1, 1, Len(pool1) - 1),
                   free |-> free1 \ {Len(pool1) - 1}]
             ELSE [pool |-> pool1, free |-> free1]
    ELSE [pool |-> pool, free |-> free]

\* The body of deallocate_value, run with both locks held.
DeallocateBody(size, pool, free, chunk_index, value_index) ==
    IF chunk_index < Len(pool)
    THEN LET chunk == ChunkDeallocate(size, pool[chunk_index + 1], value_index)
         IN  [pool |-> [pool EXCEPT ![chunk_index + 1] = chunk],
              free |-> IF has_free_slot(chunk) THEN free \cup {chunk_index} ELSE free]
    ELSE [pool |-> pool, free |-> free]

\* lazy_static: both statics start empty.
Init ==
    /\ chunks = <<>>
    /\ free_chunks = {}
    /\ panicked = FALSE
    /\ live = {}
    /\ misused = FALSE
    /\ rets = <<>>
    /\ freed = <<>>
    /\ stale = {}
    /\ last = [op |-> "none"]
    /\ calls = 0
    /\ pc = [t \in Threads |-> [fn |-> "none", at |-> "idle"]]
    /\ chunks_lock = 0
    /\ free_chunks_lock = 0
    /\ array = <<>>
    /\ array_last = [op |-> "none"]
    /\ array_calls = 0

\* s without its entries equal to x
Without(s, x) == SelectSeq(s, LAMBDA y : y # x)

\* The history of freed positions, as long as the pool.
FreedOf(pool) == [i \in 1 .. Len(pool) |-> IF i <= Len(freed) THEN freed[i] ELSE <<>>]

\* A call of allocate_value(value), from lock to return.
allocate_value(size, value) ==
    /\ ~panicked
    /\ LET r == AllocateBody(size, chunks, free_chunks, value)
           grew == Len(r.pool) > Len(chunks)
       IN  /\ chunks' = r.pool
           /\ free_chunks' = r.free
           /\ panicked' = r.panic
           /\ live' = IF r.panic THEN live ELSE live \cup {r.ret[1]}
           /\ rets' = IF r.panic THEN rets ELSE Append(rets, r.ret[1])
           /\ freed' = IF r.panic THEN FreedOf(r.pool)
                       ELSE [FreedOf(r.pool) EXCEPT
                               ![r.ret[1][1] + 1] = Without(@, r.ret[1][2])]
           /\ last' = [op |-> "allocate", value |-> value, ret |-> r.ret,
                       wasLive |-> ~r.panic /\ r.ret[1] \in live,
                       grew |-> grew,
                       queue |-> IF r.panic THEN <<>>
                                 ELSE IF grew THEN ChunkNew(size).free_indices
                                 ELSE chunks[r.ret[1][1] + 1].free_indices]
    /\ calls' = calls + 1
    /\ UNCHANGED <<misused, stale, scan>>

\* A call of deallocate_value(chunk_index, value_index), from lock to return.
deallocate_value(size, chunk_index, value_index) ==
    /\ ~panicked
    /\ LET r == DeallocateBody(size, chunks, free_chunks, chunk_index, value_index)
           handle == <<chunk_index, value_index>>
           inRange == chunk_index < Len(chunks) /\ value_index < size
           held == IF inRange THEN chunks[chunk_index + 1].values[value_index] ELSE None
       IN  /\ chunks' = r.pool
           /\ free_chunks' = r.free
           /\ live' = live \ {handle}
           /\ misused' = (misused \/ (inRange /\ handle \notin live))
           /\ freed' = IF inRange
                       THEN [freed EXCEPT ![chunk_index + 1] =
                                Append(Without(@, value_index), value_index)]
                       ELSE freed
           /\ stale' = IF held # None THEN stale \cup {<<handle, held[1]>>} ELSE stale
           /\ last' = [op |-> "deallocate", chunk_index |-> chunk_index,
                       value_index |-> value_index,
                       queue |-> IF inRange THEN chunks[chunk_index + 1].free_indices
                                 ELSE <<>>]
    /\ rets' = <<>>
    /\ calls' = calls + 1
    /\ UNCHANGED <<panicked, scan>>

\* A caller calls allocate_value with any payload.
Allocate ==
    /\ calls < MaxCalls
    /\ \E value \in Values : allocate_value(ScaledChunkSize, value)
    /\ UNCHANGED control

\* A caller calls deallocate_value with any handle: live, stale, never
\* returned, or out of range in either position.
Deallocate ==
    /\ calls < MaxCalls
    /\ \E chunk_index \in 0 .. MaxChunks, value_index \in 0 .. ScaledChunkSize :
          deallocate_value(ScaledChunkSize, chunk_index, value_index)
    /\ UNCHANGED control

\* The calls come one after the other.
Next == Allocate \/ Deallocate

Spec == Init /\ [][Next]_vars

(***************************************************************************)
(* The calls made by concurrent threads.  A call locks CHUNKS, then        *)
(* FREE_CHUNKS, runs its body, and on return drops the two guards in the   *)
(* reverse order of their declaration.  The arguments play no part before  *)
(* the body runs and are drawn there.                                      *)
(***************************************************************************)

\* Mutant: lock returns whether or not another guard is alive.
CanLock_Always(holder) == TRUE

\* Mutex::lock returns once no other guard of the mutex is alive.
CanLock(holder) == holder = 0

\* A thread calls allocate_value or deallocate_value, while fewer than budget
\* calls have been made.
CallWithin(t, budget) ==
    /\ pc[t].at = "idle"
    /\ calls + Cardinality({u \in Threads : pc[u].at # "idle"}) < budget
    /\ \E fn \in {"allocate_value", "deallocate_value"} :
          pc' = [pc EXCEPT ![t] = [fn |-> fn, at |-> "lock_chunks"]]
    /\ UNCHANGED <<statics, history, chunks_lock, free_chunks_lock, scan>>

Call(t) == CallWithin(t, MaxThreadCalls)

\* let mut chunks = CHUNKS.lock().unwrap();
LockChunks(t) ==
    /\ pc[t].at = "lock_chunks"
    /\ ~panicked
    /\ CanLock(chunks_lock)
    /\ chunks_lock' = t
    /\ pc' = [pc EXCEPT ![t].at = "lock_free_chunks"]
    /\ UNCHANGED <<statics, history, free_chunks_lock, scan>>

\* let mut free_chunks = FREE_CHUNKS.lock().unwrap();
LockFreeChunks(t) ==
    /\ pc[t].at = "lock_free_chunks"
    /\ ~panicked
    /\ CanLock(free_chunks_lock)
    /\ free_chunks_lock' = t
    /\ pc' = [pc EXCEPT ![t].at = "body"]
    /\ UNCHANGED <<statics, history, chunks_lock, scan>>

\* The body of allocate_value, up to the return.
RunAllocate(t) ==
    /\ pc[t] = [fn |-> "allocate_value", at |-> "body"]
    /\ \E value \in Values : allocate_value(ScaledChunkSize, value)
    /\ pc' = [pc EXCEPT ![t].at = "drop_free_chunks"]
    /\ UNCHANGED <<chunks_lock, free_chunks_lock>>

\* The body of deallocate_value, up to the return.
RunDeallocate(t) ==
    /\ pc[t] = [fn |-> "deallocate_value", at |-> "body"]
    /\ \E chunk_index \in 0 .. MaxChunks, value_index \in 0 .. ScaledChunkSize :
          deallocate_value(ScaledChunkSize, chunk_index, value_index)
    /\ pc' = [pc EXCEPT ![t].at = "drop_free_chunks"]
    /\ UNCHANGED <<chunks_lock, free_chunks_lock>>

\* The guard free_chunks, declared last, is dropped first.
DropFreeChunks(t) ==
    /\ pc[t].at = "drop_free_chunks"
    /\ free_chunks_lock' = 0
    /\ pc' = [pc EXCEPT ![t].at = "drop_chunks"]
    /\ UNCHANGED <<statics, history, chunks_lock, scan>>

\* Mutant: the call returns with the guard chunks leaked, CHUNKS still locked.
DropChunks_Leaks(t) ==
    /\ pc[t].at = "drop_chunks"
    /\ pc' = [pc EXCEPT ![t] = [fn |-> "none", at |-> "idle"]]
    /\ UNCHANGED <<statics, history, chunks_lock, free_chunks_lock, scan>>

\* The guard chunks is dropped and the call returns.
DropChunks(t) ==
    /\ pc[t].at = "drop_chunks"
    /\ chunks_lock' = 0
    /\ pc' = [pc EXCEPT ![t] = [fn |-> "none", at |-> "idle"]]
    /\ UNCHANGED <<statics, history, free_chunks_lock, scan>>

NextThreads ==
    \E t \in Threads :
        \/ Call(t)
        \/ LockChunks(t)
        \/ LockFreeChunks(t)
        \/ RunAllocate(t)
        \/ RunDeallocate(t)
        \/ DropFreeChunks(t)
        \/ DropChunks(t)

SpecThreads == Init /\ [][NextThreads]_vars

\* Fair scheduling: a thread that can take a step of its body or drop a guard
\* does so, and a thread waiting for a mutex that is free again and again gets
\* it.
Fairness ==
    \A t \in Threads :
        /\ WF_vars(RunAllocate(t) \/ RunDeallocate(t))
        /\ WF_vars(DropFreeChunks(t) \/ DropChunks(t))
        /\ SF_vars(LockChunks(t))
        /\ SF_vars(LockFreeChunks(t))

\* The threads' calls again, up to MaxFairCalls of them.
FairCall(t) == CallWithin(t, MaxFairCalls)

NextFair ==
    \E t \in Threads :
        \/ FairCall(t)
        \/ LockChunks(t)
        \/ LockFreeChunks(t)
        \/ RunAllocate(t)
        \/ RunDeallocate(t)
        \/ DropFreeChunks(t)
        \/ DropChunks(t)

FairSpecThreads == Init /\ [][NextFair]_vars /\ Fairness

(***************************************************************************)
(* The scenario of the specification's section 8, at the source's chunk    *)
(* size: CHUNK_SIZE + 1 allocations, one deallocation in chunk 0, one more *)
(* allocation.                                                             *)
(***************************************************************************)

\* main's payload: allocate_value(42)
MainValue == 42

\* The first CHUNK_SIZE + 1 calls allocate.
ScenarioFill ==
    /\ calls <= CHUNK_SIZE
    /\ allocate_value(CHUNK_SIZE, MainValue)
    /\ UNCHANGED control

\* Then a handle of chunk 0 is deallocated.
ScenarioFree ==
    /\ calls = CHUNK_SIZE + 1
    /\ \E value_index \in Slots(CHUNK_SIZE) : deallocate_value(CHUNK_SIZE, 0, value_index)
    /\ UNCHANGED control

\* Then one more value is allocated.
ScenarioReuse ==
    /\ calls = CHUNK_SIZE + 2
    /\ \E value \in Values : allocate_value(CHUNK_SIZE, value)
    /\ UNCHANGED control

ScenarioNext == ScenarioFill \/ ScenarioFree \/ ScenarioReuse

SpecScenario == Init /\ [][ScenarioNext]_vars

(***************************************************************************)
(* Python2RustTypes: one Vec of (value, used) pairs behind one mutex.      *)
(* allocate_value scans it for the first unused slot; deallocate_value     *)
(* clears the used mark.  Each call holds the mutex from its first         *)
(* statement to its return.                                                *)
(***************************************************************************)

\* Mutant: the loop runs from the end of the array downwards.
RECURSIVE Scan_Backwards(_, _)
Scan_Backwards(arr, index) ==
    IF index >= Len(arr) THEN None
    ELSE IF ~arr[Len(arr) - index][2] THEN Some(Len(arr) - index - 1)
    ELSE Scan_Backwards(arr, index + 1)

\* The loop of allocate_value from position index on: the first index whose
\* slot is not used, None when the loop runs off the end.
RECURSIVE Scan(_, _)
Scan(arr, index) ==
    IF index >= Len(arr) THEN None
    ELSE IF ~arr[index + 1][2] THEN Some(index)
    ELSE Scan(arr, index + 1)

\* The body of allocate_value: the array after the call and the index returned.
ArrayAllocateBody(arr, value) ==
    LET found == Scan(arr, 0)
    IN  IF found # None
        THEN [array |-> [arr EXCEPT ![found[1] + 1] = <<value, TRUE>>],
              ret |-> found[1]]
        ELSE LET pushed == Append(arr, <<value, TRUE>>)
             IN  [array |-> pushed, ret |-> Len(pushed) - 1]

\* The body of deallocate_value: get_mut(index) is None past the end.
ArrayDeallocateBody(arr, index) ==
    IF index < Len(arr)
    THEN [arr EXCEPT ![index + 1] = <<arr[index + 1][1], FALSE>>]
    ELSE arr

\* A call of Python2RustTypes' allocate_value(value).
array_allocate_value(value) ==
    LET r == ArrayAllocateBody(array, value)
    IN  /\ array' = r.array
        /\ array_last' = [op |-> "allocate", value |-> value, ret |-> r.ret,
                          before |-> array]
        /\ array_calls' = array_calls + 1

\* A call of Python2RustTypes' deallocate_value(index).
array_deallocate_value(index) ==
    /\ array' = ArrayDeallocateBody(array, index)
    /\ array_last' = [op |-> "deallocate", index |-> index, before |-> array]
    /\ array_calls' = array_calls + 1

\* A caller allocates a slot for any value.
ArrayAllocate ==
    /\ array_calls < MaxArrayCalls
    /\ \E value \in Values : array_allocate_value(value)
    /\ UNCHANGED <<statics, history, control>>

\* A caller deallocates any index, up to two past the array's end.
ArrayDeallocate ==
    /\ array_calls < MaxArrayCalls
    /\ \E index \in 0 .. (Len(array) + 1) : array_deallocate_value(index)
    /\ UNCHANGED <<statics, history, control>>

NextArray == ArrayAllocate \/ ArrayDeallocate

SpecArray == Init /\ [][NextArray]_vars

(***************************************************************************)
(* Properties                                                              *)
(***************************************************************************)

Range(q) == {q[i] : i \in 1 .. Len(q)}

Distinct(q) == \A i, j \in 1 .. Len(q) : i # j => q[i] # q[j]

\* The positions of the chunk's slots that hold None.
EmptySlots(chunk) == {i \in DOMAIN chunk.values : chunk.values[i] = None}

\* a occurs in q, and b does not occur before it.
Precedes(q, a, b) == \E i \in 1 .. Len(q) : q[i] = a /\ \A j \in 1 .. i : q[j] # b

ChunkPositions == 0 .. (Len(chunks) - 1)

\* Every deallocate_value call so far was passed a handle that was live at the
\* call, or one whose chunk or slot position was out of range.
Disciplined == ~misused

\* The last call was an allocate_value that returned a handle.
Returned == last.op = "allocate" /\ last.ret # None

\* The last call was a deallocate_value of an in-range handle.
Released(size) ==
    /\ last.op = "deallocate"
    /\ last.chunk_index < Len(chunks)
    /\ last.value_index < size

IndexIsExact ==
    /\ free_chunks \subseteq ChunkPositions
    /\ \A i \in ChunkPositions : i \in free_chunks <=> EmptySlots(chunks[i + 1]) # {}

QueueIsExact(size, chunk) ==
    /\ Distinct(chunk.free_indices)
    /\ Range(chunk.free_indices) \subseteq Slots(size)
    /\ Range(chunk.free_indices) = EmptySlots(chunk)
    /\ Cardinality(DOMAIN chunk.values \ EmptySlots(chunk)) = size - Len(chunk.free_indices)

C5_AllocateSucceeds == ~panicked /\ (last.op = "allocate" => last.ret # None)

\* An allocation that succeeded in a chunk with no empty slot left: the
\* position it took was queued twice.
C5_Witness == Returned /\ last.wasLive

\* Chunk::allocate hands out the head of the free queue and leaves its tail;
\* Chunk::deallocate appends to the queue.
HeadAndTail(size) ==
    /\ Returned =>
          /\ last.queue # <<>>
          /\ last.ret[1][2] = Head(last.queue)
          /\ chunks[last.ret[1][1] + 1].free_indices = Tail(last.queue)
    /\ Released(size) =>
          chunks[last.chunk_index + 1].free_indices = Append(last.queue, last.value_index)

\* Of two free positions of a chunk, the one freed first is handed out first.
FreedFirstOutFirst ==
    \A c \in 1 .. Len(freed) : \A i, j \in 1 .. Len(freed[c]) :
        i < j => Precedes(chunks[c].free_indices, freed[c][i], freed[c][j])

C7_FreshValue ==
    Returned => chunks[last.ret[1][1] + 1].values[last.ret[1][2]] = Some(last.value)

\* The handle was allocated and deallocated before, with another value.
C7_Witness ==
    /\ Returned
    /\ \E v \in Values : v # last.value /\ <<last.ret[1], v>> \in stale

\* C8: CHUNK_SIZE + 1 allocations from the empty pool, no deallocation: the
\* pool has at least 2 chunks and the last handle's chunk position differs
\* from that of each of the first CHUNK_SIZE handles.
C8_Growth ==
    (calls = CHUNK_SIZE + 1 /\ Len(rets) = CHUNK_SIZE + 1) =>
        /\ Len(chunks) >= 2
        /\ \A i \in 1 .. CHUNK_SIZE : rets[i][1] # rets[CHUNK_SIZE + 1][1]

\* The CHUNK_SIZE + 1 allocations have been made.
C8_Witness ==
    /\ calls = CHUNK_SIZE + 1
    /\ Len(rets) = CHUNK_SIZE + 1
    /\ Len(chunks) = 2

\* C9: the scenario: the first CHUNK_SIZE calls return (0,0) .. (0,CHUNK_SIZE-1)
\* in order, the next one (1,0) in a new chunk 1, deallocate_value(0,5) puts
\* chunk 0 back in the index, and the next allocate_value returns (0,5).
C9_Scenario ==
    /\ calls \in 1 .. CHUNK_SIZE =>
          /\ last.ret = Some(<<0, calls - 1>>)
          /\ Len(chunks) = 1
    /\ calls = CHUNK_SIZE + 1 =>
          /\ last.ret = Some(<<1, 0>>)
          /\ last.grew
          /\ Len(chunks) = 2
          /\ 0 \notin free_chunks
    /\ (calls = CHUNK_SIZE + 2 /\ last.value_index = 5) => 0 \in free_chunks
    /\ (calls = CHUNK_SIZE + 3 /\ <<<<0, 5>>, MainValue>> \in stale) =>
          last.ret = Some(<<0, 5>>)

C9_Witness ==
    /\ calls = CHUNK_SIZE + 3
    /\ <<<<0, 5>>, MainValue>> \in stale
    /\ last.ret = Some(<<0, 5>>)

\* C10: deallocate_value with a chunk position at or past the pool's length
\* changes neither the pool nor the index, signals nothing, and leaves every
\* live handle live.
C10_OutOfRangeNoOp ==
    [][(/\ calls' = calls + 1
        /\ last'.op = "deallocate"
        /\ last'.chunk_index >= Len(chunks))
       => /\ chunks' = chunks
          /\ free_chunks' = free_chunks
          /\ panicked' = panicked
          /\ live' = live]_vars

\* Such a call was made on a pool with live handles.
C10_Witness ==
    /\ last.op = "deallocate"
    /\ last.chunk_index >= Len(chunks)
    /\ live # {}
    /\ free_chunks # {}

\* C11: deallocate_value with a chunk position of the pool and a slot position
\* at or past CHUNK_SIZE changes nothing: not the chunk, not the pool, not the
\* index, and nothing is signalled.
C11_SlotOutOfRangeNoOp ==
    [][(/\ calls' = calls + 1
        /\ last'.op = "deallocate"
        /\ last'.chunk_index < Len(chunks)
        /\ last'.value_index >= ScaledChunkSize)
       => /\ chunks' = chunks
          /\ free_chunks' = free_chunks
          /\ panicked' = panicked
          /\ live' = live]_vars

\* Such a call was made on a full chunk, which the index does not hold.
C11_Witness ==
    /\ last.op = "deallocate"
    /\ last.chunk_index < Len(chunks)
    /\ last.value_index >= ScaledChunkSize
    /\ last.chunk_index \notin free_chunks
    /\ live # {}

\* The handle the call of this step addressed: the one allocate_value returned
\* or the one deallocate_value was passed.
Addressed ==
    IF last'.op = "allocate"
    THEN IF last'.ret = None THEN <<-1, -1>> ELSE last'.ret[1]
    ELSE <<last'.chunk_index, last'.value_index>>

\* C14: the pool is append-only. Its length never decreases and every chunk
\* stays at its position; deallocate_value keeps the length; allocate_value
\* appends exactly one chunk when the index is empty at the call, none otherwise.
C14_AppendOnly ==
    [][/\ Len(chunks') >= Len(chunks)
       /\ \A i \in 1 .. Len(chunks) :
             /\ i - 1 # Addressed[1] => chunks'[i] = chunks[i]
             /\ \A s \in DOMAIN chunks[i].values :
                   s # Addressed[2] => chunks'[i].values[s] = chunks[i].values[s]
       /\ last'.op = "deallocate" => Len(chunks') = Len(chunks)
       /\ last'.op = "allocate" =>
             Len(chunks') = Len(chunks) + (IF free_chunks = {} THEN 1 ELSE 0)]_vars

\* The pool has just grown by a second chunk, after a slot of the first was
\* freed and handed out again without growth.
C14_Witness ==
    /\ Returned
    /\ last.grew
    /\ Len(chunks) = 2
    /\ stale # {}
    /\ Cardinality(live) > ScaledChunkSize

\* The slot at (c, s); a slot of a chunk not yet created counts as empty, as
\* Chunk::new creates it.
SlotAt(pool, c, s) == IF c < Len(pool) THEN pool[c + 1].values[s] ELSE None

\* The moves of every slot in one call: it is filled only by the
\* allocate_value call that returns it, and only when empty; it is emptied
\* only by a deallocate_value call on it; otherwise it keeps its content.
SlotSteps ==
    \A c \in 0 .. (Len(chunks') - 1), s \in Slots(ScaledChunkSize) :
       LET before == SlotAt(chunks, c, s)
           after == SlotAt(chunks', c, s)
           taken == last'.op = "allocate" /\ last'.ret = Some(<<c, s>>)
       IN  /\ (before = None /\ after # None) => taken
           /\ (before # None /\ after = None) =>
                 last'.op = "deallocate" /\ Addressed = <<c, s>>
           /\ (before # None /\ after # None) => after = before
           /\ taken => before = None

C16_ReleaseRegardless ==
    Released(ScaledChunkSize) =>
       LET chunk == chunks[last.chunk_index + 1]
       IN  /\ chunk.values[last.value_index] = None
           /\ chunk.free_indices = Append(last.queue, last.value_index)
           /\ last.chunk_index \in free_chunks

\* The same handle has been freed twice while holding two different values:
\* the second time it belonged to a later allocation.
C16_Witness ==
    /\ Released(ScaledChunkSize)
    /\ \E v, w \in Values :
          /\ v # w
          /\ <<<<last.chunk_index, last.value_index>>, v>> \in stale
          /\ <<<<last.chunk_index, last.value_index>>, w>> \in stale

\* The handles of the occupied slots.
Occupied ==
    {h \in ChunkPositions \X Slots(ScaledChunkSize) : chunks[h[1] + 1].values[h[2]] # None}

\* C17: when every deallocate_value call was made on a handle live at the
\* call, every free queue holds exactly the chunk's empty slots, each once,
\* the index holds exactly the chunks with an empty slot, and the occupied
\* slots are the live handles.
C17_LiveDiscipline ==
    Disciplined =>
       /\ \A i \in ChunkPositions : QueueIsExact(ScaledChunkSize, chunks[i + 1])
       /\ IndexIsExact
       /\ Occupied = live

\* Two chunks, one full and out of the index, the other in it, with handles
\* live and handles freed.
C17_Witness ==
    /\ Disciplined
    /\ Len(chunks) = 2
    /\ free_chunks # {}
    /\ free_chunks # ChunkPositions
    /\ stale # {}
    /\ live # {}

\* C18: whatever deallocate_value is passed, the index holds a chunk position
\* iff that chunk's free queue is non-empty, every member of the index is a
\* position of the pool, and every queue entry is below CHUNK_SIZE.
C18_IndexTracksQueue ==
    /\ free_chunks \subseteq ChunkPositions
    /\ \A i \in ChunkPositions :
          /\ i \in free_chunks <=> chunks[i + 1].free_indices # <<>>
          /\ Range(chunks[i + 1].free_indices) \subseteq Slots(ScaledChunkSize)

\* After a handle that was not live was freed: a chunk with no empty slot is
\* in the index, for a position queued by that call.
C18_Witness ==
    /\ misused
    /\ \E i \in free_chunks : EmptySlots(chunks[i + 1]) = {}

\* C19: with a non-empty index, allocate_value takes the lowest chunk
\* position of the index and creates no chunk; with an empty index it creates
\* one chunk, inserts it and takes it.
C19_LowestOfIndex ==
    [][(last'.op = "allocate" /\ last'.ret # None) =>
          IF free_chunks # {}
          THEN /\ Addressed[1] \in free_chunks
               /\ \A j \in free_chunks : Addressed[1] <= j
               /\ Len(chunks') = Len(chunks)
          ELSE /\ Addressed[1] = Len(chunks)
               /\ Len(chunks') = Len(chunks) + 1]_vars

\* The first chunk was taken while the second was in the index too.
C19_Witness ==
    /\ Returned
    /\ ~last.grew
    /\ Len(chunks) = 2
    /\ last.ret[1][1] = 0
    /\ 1 \in free_chunks

\* The positions of a call at which the thread holds the guard of CHUNKS, and
\* those at which it holds the guard of FREE_CHUNKS.
HoldsChunksAt == {"lock_free_chunks", "body", "drop_free_chunks", "drop_chunks"}

HoldsFreeChunksAt == {"body", "drop_free_chunks"}

\* C12: a call has both structures to itself while it runs. At most one thread
\* is in a body, and it holds both locks; no thread holds the FREE_CHUNKS lock
\* without the CHUNKS lock; a thread that has returned, on any path, holds
\* neither lock.
C12_Exclusive ==
    /\ Cardinality({t \in Threads : pc[t].at = "body"}) <= 1
    /\ \A t \in Threads :
          /\ pc[t].at = "body" => chunks_lock = t /\ free_chunks_lock = t
          /\ free_chunks_lock = t => chunks_lock = t
          /\ chunks_lock = t <=> pc[t].at \in HoldsChunksAt
          /\ free_chunks_lock = t <=> pc[t].at \in HoldsFreeChunksAt
    /\ (\A t \in Threads : pc[t].at = "idle") => chunks_lock = 0 /\ free_chunks_lock = 0

\* A thread has returned from deallocate_value by the early exit, on a chunk
\* position past the pool's end, and the other thread has since taken the
\* CHUNKS lock it released.
C12_Witness ==
    /\ last.op = "deallocate"
    /\ last.chunk_index >= Len(chunks)
    /\ chunks # <<>>
    /\ \E t, u \in Threads :
          /\ pc[t].at = "idle"
          /\ pc[u].at = "lock_free_chunks"
          /\ chunks_lock = u
          /\ free_chunks_lock = 0

\* The thread waits for a mutex that another guard holds.
Blocked(t) ==
    \/ pc[t].at = "lock_chunks" /\ ~CanLock(chunks_lock)
    \/ pc[t].at = "lock_free_chunks" /\ ~CanLock(free_chunks_lock)

Unused(arr) == {i \in 0 .. (Len(arr) - 1) : ~arr[i + 1][2]}

\* C20: Python2RustTypes' allocate_value returns the smallest index whose slot
\* is not used, stores the value there and marks it used; when every slot is
\* used it appends a used slot and returns the old length; it never returns
\* an index that was marked used at the call. deallocate_value with an index
\* past the array's end changes nothing.
C20_ArrayScan ==
    /\ array_last.op = "allocate" =>
          LET b == array_last.before
              i == array_last.ret
          IN  /\ Unused(b) # {} =>
                    /\ i \in Unused(b)
                    /\ \A j \in Unused(b) : i <= j
                    /\ array = [b EXCEPT ![i + 1] = <<array_last.value, TRUE>>]
              /\ Unused(b) = {} =>
                    /\ i = Len(b)
                    /\ array = Append(b, <<array_last.value, TRUE>>)
              /\ ~(i < Len(b) /\ b[i + 1][2])
    /\ (array_last.op = "deallocate" /\ array_last.index >= Len(array_last.before)) =>
          array = array_last.before

\* A slot was reused that had a used slot before it and an unused one behind
\* it, and took a value other than the one it held.
C20_Witness ==
    /\ array_last.op = "allocate"
    /\ array_last.ret > 0
    /\ Cardinality(Unused(array_last.before)) >= 2
    /\ array_last.before[array_last.ret + 1][1] # array_last.value

====
